---- MODULE Spec2Model ----
(***************************************************************************)
(* Huffman coding as implemented in src/HuffmanAlgorithm.py (impl = 1) and *)
(* src/HuffmanAlgorithm2.py (impl = 2).                                    *)
(*                                                                         *)
(* Python values are modelled as follows.                                  *)
(*   str            a sequence of one-character strings                    *)
(*   Counter / dict of counts                                              *)
(*                  a sequence of [char, freq] entries in insertion order  *)
(*   Node objects   entries of the arena `nodes`; a reference to a Node is *)
(*                  its index in the arena, the reference None is Nil      *)
(*   codes dict     a function from characters to bit strings              *)
(* One process makes up to MaxCalls pipeline runs one after the other; the *)
(* only state that survives from one run to the next is the default value  *)
(* of generate_codes' parameter `codes`.                                   *)
(***************************************************************************)
EXTENDS Integers, Sequences, FiniteSets, TLC

VARIABLES impl, corpus, calls, pc, kind, text, freq_table, nodes, heap,
          node1, node2, merges, root, default_codes, codes, encoded,
          encoded_text, current, result, pos, err

vars == <<impl, corpus, calls, pc, kind, text, freq_table, nodes, heap,
          node1, node2, merges, root, default_codes, codes, encoded,
          encoded_text, current, result, pos, err>>

-----------------------------------------------------------------------------
(* Bounds of the model *)

MaxLen == 4
MaxCount == 3
MaxTail == 1
MaxCalls == 2
MaxCodeLen == 3

(* Input alphabets *)
Alphabet == {"a", "b", "c"}
TableKeys == <<"a", "b", "c", "d">>

-----------------------------------------------------------------------------
(* Python constants *)

None == "None"
Nil == 0
EmptyDict == [k \in {} |-> <<>>]

(* The texts named in the source files *)
ExampleComment == <<"a","a","b","b","b","c","c","c","c">>
ExampleMain == <<"H","u","f","f","m","a","n"," ","C","o","d","i","n","g">>

-----------------------------------------------------------------------------
(* class Node *)

Node(char, freq) == [char |-> char, freq |-> freq, left |-> Nil, right |-> Nil]

(* A variant with the comparison turned around *)
Lt_reversed(ns, a, b) == ns[a].freq > ns[b].freq

Lt(ns, a, b) == ns[a].freq < ns[b].freq

-----------------------------------------------------------------------------
(* heapq, on a list h of node references (positions are 0-based as in      *)
(* Python; h[p + 1] is Python's h[p])                                      *)

RECURSIVE siftdown_loop(_, _, _, _, _)
siftdown_loop(ns, h, startpos, p, newitem) ==
    IF p > startpos
    THEN LET parentpos == (p - 1) \div 2
             parent == h[parentpos + 1]
         IN  IF Lt(ns, newitem, parent)
             THEN siftdown_loop(ns, [h EXCEPT ![p + 1] = parent], startpos,
                                parentpos, newitem)
             ELSE [h EXCEPT ![p + 1] = newitem]
    ELSE [h EXCEPT ![p + 1] = newitem]

siftdown(ns, h, startpos, p) == siftdown_loop(ns, h, startpos, p, h[p + 1])

RECURSIVE siftup_loop(_, _, _, _, _)
siftup_loop(ns, h, p, childpos, endpos) ==
    IF childpos < endpos
    THEN LET rightpos == childpos + 1
             c == IF rightpos < endpos
                     /\ ~Lt(ns, h[childpos + 1], h[rightpos + 1])
                  THEN rightpos
                  ELSE childpos
         IN  siftup_loop(ns, [h EXCEPT ![p + 1] = h[c + 1]], c, 2 * c + 1,
                         endpos)
    ELSE [heap |-> h, pos |-> p]

siftup(ns, h, p) ==
    LET newitem == h[p + 1]
        r == siftup_loop(ns, h, p, 2 * p + 1, Len(h))
    IN  siftdown(ns, [r.heap EXCEPT ![r.pos + 1] = newitem], p, r.pos)

RECURSIVE heapify_loop(_, _, _)
heapify_loop(ns, x, i) ==
    IF i < 0 THEN x ELSE heapify_loop(ns, siftup(ns, x, i), i - 1)

heapify(ns, x) == heapify_loop(ns, x, (Len(x) \div 2) - 1)

(* A variant that takes the last element of the list, not the smallest *)
heappop_last(ns, h) ==
    [item |-> h[Len(h)], heap |-> SubSeq(h, 1, Len(h) - 1)]

heappop(ns, h) ==
    LET lastelt == h[Len(h)]
        rest == SubSeq(h, 1, Len(h) - 1)
    IN  IF rest # <<>>
        THEN [item |-> rest[1],
              heap |-> siftup(ns, [rest EXCEPT ![1] = lastelt], 0)]
        ELSE [item |-> lastelt, heap |-> rest]

heappush(ns, h, item) == siftdown(ns, Append(h, item), 0, Len(h))

-----------------------------------------------------------------------------
(* build_huffman_tree: the list comprehension over freq_table.items(); the *)
(* references to the new nodes are their positions in the arena            *)

RECURSIVE Leaves(_)
Leaves(ft) ==
    IF ft = <<>>
    THEN <<>>
    ELSE <<Node(Head(ft).char, Head(ft).freq)>> \o Leaves(Tail(ft))

RECURSIVE Refs(_)
Refs(n) == IF n = 0 THEN <<>> ELSE Append(Refs(n - 1), n)

(* A variant that links the first node popped as both children *)
Merged_same_child(ns, n1, n2) ==
    [Node(None, ns[n1].freq + ns[n2].freq) EXCEPT !.left = n1, !.right = n1]

(* build_huffman_tree: the internal node made of the two nodes popped *)
Merged(ns, n1, n2) ==
    [Node(None, ns[n1].freq + ns[n2].freq) EXCEPT !.left = n1, !.right = n2]

-----------------------------------------------------------------------------
(* build_frequency_table: collections.Counter over the characters of text  *)

(* A variant that adds an entry for every character read *)
RECURSIVE Counter_no_merge(_, _)
Counter_no_merge(table, t) ==
    IF t = <<>>
    THEN table
    ELSE Counter_no_merge(Append(table, [char |-> Head(t), freq |-> 1]),
                          Tail(t))

RECURSIVE Counter(_, _)
Counter(table, t) ==
    IF t = <<>>
    THEN table
    ELSE LET c == Head(t)
             at == {i \in 1..Len(table) : table[i].char = c}
         IN  IF at = {}
             THEN Counter(Append(table, [char |-> c, freq |-> 1]), Tail(t))
             ELSE LET i == CHOOSE i \in at : TRUE
                  IN  Counter([table EXCEPT ![i].freq = @ + 1], Tail(t))

build_frequency_table(t) == Counter(<<>>, t)

-----------------------------------------------------------------------------
(* generate_codes *)

Put(d, k, v) == [x \in (DOMAIN d) \cup {k} |-> IF x = k THEN v ELSE d[x]]

IsLeaf(ns, n) == ns[n].left = Nil /\ ns[n].right = Nil

(* A variant that adds the bit "0" on both branches *)
RECURSIVE generate_codes_same_bit(_, _, _, _)
generate_codes_same_bit(ns, r, current_code, d) ==
    IF IsLeaf(ns, r)
    THEN IF current_code = <<>>
         THEN Put(d, ns[r].char, <<"0">>)
         ELSE Put(d, ns[r].char, current_code)
    ELSE generate_codes_same_bit(ns, ns[r].right, current_code \o <<"0">>,
             generate_codes_same_bit(ns, ns[r].left, current_code \o <<"0">>,
                                     d))

RECURSIVE generate_codes_rec(_, _, _, _)
generate_codes_rec(ns, r, current_code, d) ==
    IF IsLeaf(ns, r)
    THEN IF current_code = <<>>
         THEN Put(d, ns[r].char, <<"0">>)
         ELSE Put(d, ns[r].char, current_code)
    ELSE generate_codes_rec(ns, ns[r].right, current_code \o <<"1">>,
             generate_codes_rec(ns, ns[r].left, current_code \o <<"0">>, d))

(* The value bound to `codes` when the caller passes no accumulator.       *)
DefaultCodes ==
    IF impl = 1
    THEN [is_none |-> FALSE, dict |-> default_codes]
    ELSE [is_none |-> TRUE, dict |-> EmptyDict]

generate_codes(ns, r, current_code, arg) ==
    generate_codes_rec(ns, r, current_code,
                       IF arg.is_none THEN EmptyDict ELSE arg.dict)

-----------------------------------------------------------------------------
(* encode_text *)

RECURSIVE Join(_, _)
Join(t, d) == IF t = <<>> THEN <<>> ELSE d[Head(t)] \o Join(Tail(t), d)

encode_text(t, d) == Join(t, d)

EncodeRaises(t, d) == \E i \in 1..Len(t) : t[i] \notin DOMAIN d

-----------------------------------------------------------------------------
(* decode_text *)

RECURSIVE Repeat(_, _)
Repeat(c, n) == IF n = 0 THEN <<>> ELSE Append(Repeat(c, n - 1), c)

Child(ns, n, bit) == IF bit = "0" THEN ns[n].left ELSE ns[n].right

(* A variant that stays at the leaf after emitting its character *)
decode_step_no_reset(ns, r, cur, res, bit) ==
    LET nxt == IF bit = "0" THEN ns[cur].left ELSE ns[cur].right
    IN  IF nxt = Nil
        THEN [raised |-> TRUE, current |-> nxt, result |-> res]
        ELSE IF ns[nxt].char # None
             THEN [raised |-> FALSE, current |-> nxt,
                   result |-> Append(res, ns[nxt].char)]
             ELSE [raised |-> FALSE, current |-> nxt, result |-> res]

(* The body of the for loop: the walk moves to a child; at a node with a   *)
(* character it emits the character and goes back to the root. Reading     *)
(* .char of None raises AttributeError.                                    *)
decode_step(ns, r, cur, res, bit) ==
    LET nxt == Child(ns, cur, bit)
    IN  IF nxt = Nil
        THEN [raised |-> TRUE, current |-> nxt, result |-> res]
        ELSE IF ns[nxt].char # None
             THEN [raised |-> FALSE, current |-> r,
                   result |-> Append(res, ns[nxt].char)]
             ELSE [raised |-> FALSE, current |-> nxt, result |-> res]

-----------------------------------------------------------------------------
(* Inputs *)

RECURSIVE BitStrings(_)
BitStrings(n) ==
    IF n = 0
    THEN {<<>>}
    ELSE LET shorter == BitStrings(n - 1)
         IN  shorter \cup {Append(s, b) : s \in {x \in shorter : Len(x) = n - 1},
                                          b \in {"0", "1"}}

Tails == BitStrings(MaxTail)

Texts == UNION {[1..n -> Alphabet] : n \in 0..MaxLen}

(* The texts of the source files and the two boundary texts "aaaa" and     *)
(* "aabbbbbb"                                                              *)
Examples == {ExampleComment, ExampleMain,
             <<"a","a","a","a">>,
             <<"a","a","b","b","b","b","b","b">>}

RECURSIVE Table(_, _)
Table(f, n) ==
    IF n = 0
    THEN <<>>
    ELSE Append(Table(f, n - 1), [char |-> TableKeys[n], freq |-> f[n]])

Tables ==
    UNION {{Table(f, n) : f \in [1..n -> 1..MaxCount]} :
              n \in 0..Len(TableKeys)}

TextInputs == {[kind |-> "text", text |-> t, table |-> <<>>] :
                  t \in Texts \cup Examples}

TableInputs == {[kind |-> "table", text |-> <<>>, table |-> tb] :
                   tb \in Tables}

-----------------------------------------------------------------------------
(* State machine *)

FreshRun ==
    /\ pc' = "idle"
    /\ kind' = "text"
    /\ text' = <<>>
    /\ freq_table' = <<>>
    /\ nodes' = <<>>
    /\ heap' = <<>>
    /\ node1' = Nil
    /\ node2' = Nil
    /\ merges' = 0
    /\ root' = Nil
    /\ codes' = EmptyDict
    /\ encoded' = <<>>
    /\ encoded_text' = <<>>
    /\ current' = Nil
    /\ result' = <<>>
    /\ pos' = 0
    /\ err' = "none"

(* What the caller of this process draws its inputs from *)
Inputs(c) == IF c = "texts" THEN TextInputs ELSE TableInputs

InitWith(c) ==
    /\ impl \in {1, 2}
    /\ corpus = c
    /\ calls = 1
    /\ pc = "idle"
    /\ kind = "text"
    /\ text = <<>>
    /\ freq_table = <<>>
    /\ nodes = <<>>
    /\ heap = <<>>
    /\ node1 = Nil
    /\ node2 = Nil
    /\ merges = 0
    /\ root = Nil
    /\ default_codes = EmptyDict
    /\ codes = EmptyDict
    /\ encoded = <<>>
    /\ encoded_text = <<>>
    /\ current = Nil
    /\ result = <<>>
    /\ pos = 0
    /\ err = "none"

Init == InitWith("texts")

InitTables == InitWith("tables")

(* The caller obtains a frequency table: from a text, or its own. *)
Start ==
    /\ pc = "idle"
    /\ \E inp \in Inputs(corpus) :
          /\ kind' = inp.kind
          /\ text' = inp.text
          /\ freq_table' = IF inp.kind = "text"
                           THEN build_frequency_table(inp.text)
                           ELSE inp.table
    /\ pc' = "counted"
    /\ UNCHANGED <<impl, corpus, calls, nodes, heap, node1, node2, merges,
                   root, default_codes, codes, encoded, encoded_text,
                   current, result, pos, err>>

(* build_huffman_tree: the list of leaves, heapified. *)
BuildHeap ==
    /\ pc = "counted"
    /\ LET ns == Leaves(freq_table)
       IN  /\ nodes' = ns
           /\ heap' = heapify(ns, Refs(Len(ns)))
    /\ pc' = "loop"
    /\ UNCHANGED <<impl, corpus, calls, kind, text, freq_table, node1, node2,
                   merges, root, default_codes, codes, encoded, encoded_text,
                   current, result, pos, err>>

(* build_huffman_tree: one iteration of the while loop. *)
Merge ==
    /\ pc = "loop"
    /\ Len(heap) > 1
    /\ LET p1 == heappop(nodes, heap)
           p2 == heappop(nodes, p1.heap)
           ns == Append(nodes, Merged(nodes, p1.item, p2.item))
       IN  /\ node1' = p1.item
           /\ node2' = p2.item
           /\ nodes' = ns
           /\ heap' = heappush(ns, p2.heap, Len(ns))
    /\ merges' = merges + 1
    /\ UNCHANGED <<impl, corpus, calls, pc, kind, text, freq_table, root,
                   default_codes, codes, encoded, encoded_text, current,
                   result, pos, err>>

(* build_huffman_tree: return heap[0]. *)
ReturnRoot ==
    /\ pc = "loop"
    /\ ~(Len(heap) > 1)
    /\ IF heap = <<>>
       THEN /\ err' = "IndexError"
            /\ pc' = "failed"
            /\ root' = root
       ELSE /\ err' = err
            /\ pc' = "built"
            /\ root' = heap[1]
    /\ UNCHANGED <<impl, corpus, calls, kind, text, freq_table, nodes, heap,
                   node1, node2, merges, default_codes, codes, encoded,
                   encoded_text, current, result, pos>>

(* codes = generate_codes(huffman_tree) *)
GenerateCodes ==
    /\ pc = "built"
    /\ LET d == generate_codes(nodes, root, <<>>, DefaultCodes)
       IN  /\ codes' = d
           /\ default_codes' = IF impl = 1 THEN d ELSE default_codes
    /\ pc' = "coded"
    /\ UNCHANGED <<impl, corpus, calls, kind, text, freq_table, nodes, heap,
                   node1, node2, merges, root, encoded, encoded_text,
                   current, result, pos, err>>

(* encoded = encode_text(text, codes) *)
Encode ==
    /\ pc = "coded"
    /\ IF EncodeRaises(text, codes)
       THEN /\ err' = "KeyError"
            /\ pc' = "failed"
            /\ encoded' = encoded
       ELSE /\ err' = err
            /\ pc' = "encoded"
            /\ encoded' = encode_text(text, codes)
    /\ UNCHANGED <<impl, corpus, calls, kind, text, freq_table, nodes, heap,
                   node1, node2, merges, root, default_codes, codes,
                   encoded_text, current, result, pos>>

(* decode_text(encoded_text, root) up to the loop: the stream handed in is *)
(* the encoding followed by up to MaxTail further bits.                    *)
DecodeStart ==
    /\ pc = "encoded"
    /\ \E tail \in Tails :
          LET s == encoded \o tail
          IN  /\ encoded_text' = s
              /\ IF IsLeaf(nodes, root)
                 THEN /\ result' = Repeat(nodes[root].char, Len(s))
                      /\ current' = current
                      /\ pc' = "done"
                 ELSE /\ result' = <<>>
                      /\ current' = root
                      /\ pc' = "decoding"
    /\ pos' = 0
    /\ UNCHANGED <<impl, corpus, calls, kind, text, freq_table, nodes, heap,
                   node1, node2, merges, root, default_codes, codes, encoded,
                   err>>

(* decode_text: one iteration of the for loop. *)
DecodeBit ==
    /\ pc = "decoding"
    /\ pos < Len(encoded_text)
    /\ LET st == decode_step(nodes, root, current, result,
                             encoded_text[pos + 1])
       IN  /\ current' = st.current
           /\ result' = st.result
           /\ err' = IF st.raised THEN "AttributeError" ELSE err
           /\ pc' = IF st.raised THEN "failed" ELSE pc
    /\ pos' = pos + 1
    /\ UNCHANGED <<impl, corpus, calls, kind, text, freq_table, nodes, heap,
                   node1, node2, merges, root, default_codes, codes, encoded,
                   encoded_text>>

(* decode_text: return result. *)
DecodeReturn ==
    /\ pc = "decoding"
    /\ pos = Len(encoded_text)
    /\ pc' = "done"
    /\ UNCHANGED <<impl, corpus, calls, kind, text, freq_table, nodes, heap,
                   node1, node2, merges, root, default_codes, codes, encoded,
                   encoded_text, current, result, pos, err>>

(* The same process runs the pipeline again. *)
NextCall ==
    /\ pc \in {"done", "failed"}
    /\ calls < MaxCalls
    /\ calls' = calls + 1
    /\ FreshRun
    /\ UNCHANGED <<impl, corpus, default_codes>>

Next ==
    \/ Start
    \/ BuildHeap
    \/ Merge
    \/ ReturnRoot
    \/ GenerateCodes
    \/ Encode
    \/ DecodeStart
    \/ DecodeBit
    \/ DecodeReturn
    \/ NextCall

Spec == Init /\ [][Next]_vars

SpecTables == InitTables /\ [][Next]_vars

-----------------------------------------------------------------------------
(* Vocabulary of the properties. These read the tree from the arena on     *)
(* their own: paths are followed upwards from a leaf through its parent,   *)
(* not downwards as generate_codes and decode_text do.                     *)

RECURSIVE Subtree(_, _)
Subtree(ns, n) ==
    IF n = Nil
    THEN {}
    ELSE {n} \cup Subtree(ns, ns[n].left) \cup Subtree(ns, ns[n].right)

LeafNodes(ns, r) == {n \in Subtree(ns, r) : IsLeaf(ns, n)}

InternalNodes(ns, r) == Subtree(ns, r) \ LeafNodes(ns, r)

(* The (parent, side) slots that hold a reference to node n *)
Slots(ns, n) ==
    {<<p, "0">> : p \in {q \in 1..Len(ns) : ns[q].left = n}}
    \cup {<<p, "1">> : p \in {q \in 1..Len(ns) : ns[q].right = n}}

RECURSIVE PathTo(_, _, _)
PathTo(ns, r, n) ==
    IF n = r \/ Slots(ns, n) = {}
    THEN <<>>
    ELSE LET s == CHOOSE s \in Slots(ns, n) : TRUE
         IN  Append(PathTo(ns, r, s[1]), s[2])

IsPrefix(s, t) == Len(s) <= Len(t) /\ SubSeq(t, 1, Len(s)) = s

IsProperPrefix(s, t) == IsPrefix(s, t) /\ Len(s) < Len(t)

Occurrences(t, c) == Cardinality({i \in 1..Len(t) : t[i] = c})

Symbols(t) == {t[i] : i \in 1..Len(t)}

RECURSIVE SumFreq(_)
SumFreq(ft) == IF ft = <<>> THEN 0 ELSE Head(ft).freq + SumFreq(Tail(ft))

FreqOf(ft, c) ==
    LET at == {i \in 1..Len(ft) : ft[i].char = c}
    IN  IF at = {} THEN 0 ELSE ft[CHOOSE i \in at : TRUE].freq

Uniform(t) == t # <<>> /\ \A i \in 1..Len(t) : t[i] = t[1]

AllZero(s) == \A i \in 1..Len(s) : s[i] = "0"

-----------------------------------------------------------------------------
(* C1: round trip. For every non-empty text S the pipeline raises nothing, *)
(* and decoding the encoding of S with the tree built from S gives S back. *)
C1_RoundTrip ==
    (kind = "text" /\ text # <<>>) =>
        /\ err = "none"
        /\ (pc = "done" /\ encoded_text = encoded) => result = text

C1_Witness ==
    /\ pc = "done"
    /\ impl = 1
    /\ calls = 2
    /\ text = ExampleMain
    /\ encoded_text = encoded
    /\ Len(encoded) > Len(text)
    /\ result = text

(* C2: prefix-freedom, as claimed: every table returned by generate_codes  *)
(* has only non-empty codes, and no code of one symbol is a prefix of the  *)
(* code of another symbol.                                                 *)
C2_PrefixFree ==
    pc = "coded" =>
        /\ \A k \in DOMAIN codes : codes[k] # <<>>
        /\ \A k1, k2 \in DOMAIN codes :
              k1 # k2 => ~IsPrefix(codes[k1], codes[k2])

(* C4: no state leaks, as claimed: the table returned by a top-level call  *)
(* without accumulator has exactly the leaf symbols of the tree as keys,   *)
(* each mapped to its root-to-leaf path ("0" for a tree that is one leaf), *)
(* whatever calls were made before.                                        *)
C4_NoLeak ==
    pc = "coded" =>
        /\ DOMAIN codes = {nodes[n].char : n \in LeafNodes(nodes, root)}
        /\ \A n \in LeafNodes(nodes, root) :
              codes[nodes[n].char] =
                  IF n = root THEN <<"0">> ELSE PathTo(nodes, root, n)

(* C6: single-symbol boundary, as claimed: for a text of n >= 1 copies of  *)
(* one symbol c the tree is a single leaf, the table is exactly {c: "0"},  *)
(* the encoding is n bits "0", and decode_text returns one c per bit of    *)
(* any bit string.                                                         *)
C6_SingleSymbol ==
    (kind = "text" /\ Uniform(text)) =>
        /\ pc \in {"built", "coded", "encoded", "done"} =>
              /\ IsLeaf(nodes, root)
              /\ nodes[root].char = text[1]
        /\ pc \in {"coded", "encoded", "done"} =>
              /\ DOMAIN codes = {text[1]}
              /\ codes[text[1]] = <<"0">>
        /\ pc \in {"encoded", "done"} =>
              /\ Len(encoded) = Len(text)
              /\ AllZero(encoded)
        /\ pc = "done" =>
              /\ Len(result) = Len(encoded_text)
              /\ \A i \in 1..Len(result) : result[i] = text[1]
        /\ pc # "decoding"

(* C8: the example text, as claimed: "Huffman Coding" has 13 distinct      *)
(* symbols with counts summing to 14, space and H have count 1, and n is   *)
(* the only symbol with a count greater than 1.                            *)
C8_ExampleAsClaimed ==
    (pc = "counted" /\ kind = "text" /\ text = ExampleMain) =>
        /\ Len(freq_table) = 13
        /\ SumFreq(freq_table) = 14
        /\ FreqOf(freq_table, " ") = 1
        /\ FreqOf(freq_table, "H") = 1
        /\ {c \in Symbols(text) : FreqOf(freq_table, c) > 1} = {"n"}

(* C8, amended: "Huffman Coding" has 12 distinct symbols, each once as a   *)
(* key, with counts summing to 14; space and H have count 1; f and n both  *)
(* have count 2 and are the only symbols with a count greater than 1.      *)
C8_Example ==
    (pc = "counted" /\ kind = "text" /\ text = ExampleMain) =>
        /\ Len(freq_table) = 12
        /\ Cardinality({freq_table[i].char : i \in 1..Len(freq_table)}) = 12
        /\ SumFreq(freq_table) = 14
        /\ FreqOf(freq_table, " ") = 1
        /\ FreqOf(freq_table, "H") = 1
        /\ FreqOf(freq_table, "f") = 2
        /\ FreqOf(freq_table, "n") = 2
        /\ {c \in Symbols(text) : FreqOf(freq_table, c) > 1} = {"f", "n"}

C8_Witness ==
    /\ pc = "counted"
    /\ kind = "text"
    /\ text = ExampleMain
    /\ freq_table # <<>>

-----------------------------------------------------------------------------
(* Competing codes for C3: one word of CodeWords per table entry, no word  *)
(* a prefix of another. NoCheaper says that no such code has a total       *)
(* length below `best`; an assignment that has already reached `best` is   *)
(* not extended, since every further word only adds to the total.          *)

CodeWords == BitStrings(MaxCodeLen) \ {<<>>}

RECURSIVE NoCheaper(_, _, _, _, _)
NoCheaper(ft, i, used, total, best) ==
    IF total >= best
    THEN TRUE
    ELSE IF i > Len(ft)
         THEN FALSE
         ELSE \A w \in CodeWords :
                 (\A u \in used : ~IsPrefix(u, w) /\ ~IsPrefix(w, u)) =>
                     NoCheaper(ft, i + 1, used \cup {w},
                               total + ft[i].freq * Len(w), best)

RECURSIVE TotalLength(_, _)
TotalLength(ft, d) ==
    IF ft = <<>>
    THEN 0
    ELSE Head(ft).freq * Len(d[Head(ft).char]) + TotalLength(Tail(ft), d)

(* C3: optimality. For every frequency table with at least two symbols the *)
(* total encoded length under the generated code table is at most the      *)
(* total length under any prefix-free code for the same table.             *)
C3_Optimal ==
    (pc = "coded" /\ Len(freq_table) >= 2) =>
        NoCheaper(freq_table, 1, {}, 0, TotalLength(freq_table, codes))

C3_Witness ==
    /\ pc = "coded"
    /\ impl = 1
    /\ calls = 2
    /\ Len(freq_table) = 4
    /\ \E k \in DOMAIN codes : Len(codes[k]) = 3
    /\ TotalLength(freq_table, codes) < 2 * SumFreq(freq_table)

(* C5: empty input, as claimed: build_huffman_tree on an empty table ends  *)
(* with an explicit empty-input error, having popped nothing and returned  *)
(* no tree.                                                                *)
C5_EmptyInput ==
    (freq_table = <<>> /\ pc \notin {"idle", "counted", "loop"}) =>
        /\ pc = "failed"
        /\ err = "EmptyInputError"
        /\ merges = 0
        /\ root = Nil

(* C7: tree shape. For a non-empty text with N distinct symbols the tree   *)
(* returned has N leaves, one per symbol and carrying its count, and N - 1 *)
(* internal nodes, each with two children and the sum of their freq; no    *)
(* node is referenced from two places; the root's freq is the text length. *)
C7_TreeShape ==
    (kind = "text" /\ text # <<>>
        /\ pc \in {"built", "coded", "encoded", "decoding", "done"}) =>
        LET N == Cardinality(Symbols(text))
            L == LeafNodes(nodes, root)
            I == InternalNodes(nodes, root)
        IN  /\ Cardinality(L) = N
            /\ Cardinality(I) = N - 1
            /\ \A c \in Symbols(text) :
                  /\ Cardinality({n \in L : nodes[n].char = c}) = 1
                  /\ \A n \in L : nodes[n].char = c =>
                        nodes[n].freq = Occurrences(text, c)
            /\ \A n \in I :
                  /\ nodes[n].left # Nil
                  /\ nodes[n].right # Nil
                  /\ nodes[n].freq = nodes[nodes[n].left].freq
                                       + nodes[nodes[n].right].freq
            /\ \A n \in L \cup I :
                  Cardinality(Slots(nodes, n)) = IF n = root THEN 0 ELSE 1
            /\ nodes[root].freq = Len(text)

C7_Witness ==
    /\ pc = "built"
    /\ kind = "text"
    /\ text = ExampleMain
    /\ Cardinality(LeafNodes(nodes, root)) = 12
    /\ Cardinality(InternalNodes(nodes, root)) = 11

(* C9: greedy merge steps. For a table with N >= 1 entries the loop makes  *)
(* exactly N - 1 merges and stops with one node in the queue, the root     *)
(* returned. After every merge the new node has the first node popped as   *)
(* left child and the second as right child, both are out of the queue,    *)
(* and left.freq <= right.freq <= the freq of every other node in the      *)
(* queue; the nodes in the queue are exactly the nodes that are no child.  *)
C9_GreedyMerge ==
    (Len(freq_table) >= 1 /\ pc \notin {"idle", "counted"}) =>
        LET N == Len(freq_table)
            queue == {heap[i] : i \in 1..Len(heap)}
            children == {nodes[n].left : n \in 1..Len(nodes)}
                          \cup {nodes[n].right : n \in 1..Len(nodes)}
            new == Len(nodes)
        IN  /\ pc # "failed"
            /\ merges <= N - 1
            /\ Len(heap) = N - merges
            /\ Len(nodes) = N + merges
            /\ Cardinality(queue) = Len(heap)
            /\ queue = (1..Len(nodes)) \ children
            /\ pc # "loop" =>
                  /\ merges = N - 1
                  /\ Len(heap) = 1
                  /\ root = heap[1]
            /\ merges > 0 =>
                  /\ nodes[new].left = node1
                  /\ nodes[new].right = node2
                  /\ node1 # node2
                  /\ nodes[new].freq = nodes[node1].freq + nodes[node2].freq
                  /\ nodes[node1].freq <= nodes[node2].freq
                  /\ \A n \in queue \ {new} :
                        nodes[node2].freq <= nodes[n].freq

C9_Witness ==
    /\ pc = "built"
    /\ Len(freq_table) = 4
    /\ merges = 3
    /\ freq_table[1].freq = 3
    /\ freq_table[4].freq = 1
    /\ nodes[node1].freq < nodes[node2].freq

(* C10: decode of a malformed stream. With a tree of at least two leaves   *)
(* the walk starts at the root, stands on an internal node before every    *)
(* bit, namely the node reached from the root by the bits read since the   *)
(* last emitted symbol (the root right after an emission), and no error is *)
(* raised; for a stream made of the codes of a text followed by a          *)
(* non-empty proper prefix of some code, the result is that text.          *)
EmittedBits(res) ==
    LET depth(c) ==
            Len(PathTo(nodes, root,
                       CHOOSE n \in LeafNodes(nodes, root) : nodes[n].char = c))
        sum[k \in 0..Len(res)] ==
            IF k = 0 THEN 0 ELSE sum[k - 1] + depth(res[k])
    IN  sum[Len(res)]

LeftOver == SubSeq(encoded_text, Len(encoded) + 1, Len(encoded_text))

C10_MalformedStream ==
    /\ err # "AttributeError"
    /\ (pc \in {"decoding", "done"} /\ ~IsLeaf(nodes, root)) =>
          /\ pc = "decoding" =>
                /\ current \in InternalNodes(nodes, root)
                /\ pos = 0 => current = root
                /\ PathTo(nodes, root, current)
                     = SubSeq(encoded_text, EmittedBits(result) + 1, pos)
          /\ (/\ pc = "done"
              /\ kind = "text"
              /\ LeftOver # <<>>
              /\ \E n \in LeafNodes(nodes, root) :
                    IsProperPrefix(LeftOver, PathTo(nodes, root, n))) =>
                /\ pos = Len(encoded_text)
                /\ result = text

C10_Witness ==
    /\ pc = "done"
    /\ kind = "text"
    /\ Len(text) >= 3
    /\ ~IsLeaf(nodes, root)
    /\ LeftOver # <<>>
    /\ \E n \in LeafNodes(nodes, root) :
          IsProperPrefix(LeftOver, PathTo(nodes, root, n))
    /\ result = text

====
